---------------------------- MODULE Spec2Model ----------------------------
(***************************************************************************)
(* Incipit Genie Pro (src/citationparserapp.py): the citation manager      *)
(* (text normalisation, fingerprinting, the parsing cascade, the           *)
(* Ibid / short-note / full-note history engine), the incipit extractor    *)
(* and the document restructuring loop of process_document_xml.            *)
(*                                                                         *)
(* Python strings are TLA+ strings; a character is a string of length 1.   *)
(* TLA+ string literals are ASCII, so the five non-ASCII characters the    *)
(* source names are written with stand-ins that the source treats as       *)
(* plain punctuation everywhere else:                                      *)
(*     U+2013 EN DASH                      ~                               *)
(*     U+201C / U+201D  double quotes      {  }                            *)
(*     U+2018 / U+2019  single quotes      <  >                            *)
(* Python's None is the record None; an optional string is Str(s).         *)
(* A call that raises yields Raise(e); a call that returns yields Ok(v).   *)
(***************************************************************************)
EXTENDS Integers, Sequences, FiniteSets, TLC

-----------------------------------------------------------------------------
(* Characters and character classes of the regular expressions.            *)

EnDash == "~"
LDQuote == "{"
RDQuote == "}"
LSQuote == "<"
RSQuote == ">"

UpperStr == "ABCDEFGHIJKLMNOPQRSTUVWXYZ"
LowerStr == "abcdefghijklmnopqrstuvwxyz"
DigitStr == "0123456789"

Ch(s, i) == SubSeq(s, i, i)
CharsOf(s) == { Ch(s, i) : i \in 1..Len(s) }

Upper == CharsOf(UpperStr)
Lower == CharsOf(LowerStr)
Letter == Upper \cup Lower
Digit == CharsOf(DigitStr)
\* \w of a str pattern, on the model's alphabet
WordChar == Letter \cup Digit \cup {"_"}
\* \s, and the characters str.strip() and str.split() treat as blank
Space == {" ", "\t", "\n", "\r", "\f"}

Min(a, b) == IF a < b THEN a ELSE b
Max(a, b) == IF a > b THEN a ELSE b
MaxOf(P) == CHOOSE q \in P : \A r \in P : r <= q
MinOf(P) == CHOOSE q \in P : \A r \in P : q <= r
\* the smallest member of a set of indices, 0 for the empty set
first_of(P) == IF P = {} THEN 0 ELSE MinOf(P)

None == [isNone |-> TRUE, str |-> ""]
Str(s) == [isNone |-> FALSE, str |-> s]
\* Python truthiness of an optional string: None and "" are falsy
Truthy(o) == ~o.isNone /\ o.str # ""

Ok(v) == [raised |-> FALSE, exc |-> "", val |-> v]
Raise(e) == [raised |-> TRUE, exc |-> e, val |-> ""]

-----------------------------------------------------------------------------
(* str methods.  Indices are 1-based: Python s[a:b] is SubSeq(s, a+1, b).  *)

From(s, i) == SubSeq(s, i, Len(s))
Upto(s, n) == SubSeq(s, 1, n)

\* s[i-1:].startswith(lit)
StartsAt(s, i, lit) ==
    /\ i >= 1
    /\ i + Len(lit) - 1 <= Len(s)
    /\ SubSeq(s, i, i + Len(lit) - 1) = lit

\* s[:i-1].endswith(lit): lit stands immediately before index i
EndsBefore(s, i, lit) ==
    /\ i - Len(lit) >= 1
    /\ SubSeq(s, i - Len(lit), i - 1) = lit

\* lit in s
Contains(s, lit) == \E i \in 1..(Len(s) + 1) : StartsAt(s, i, lit)

\* s.find(lit) + 1, or 0 when lit is not in s
Find(s, lit) ==
    IF Contains(s, lit)
    THEN CHOOSE i \in 1..(Len(s) + 1) :
            /\ StartsAt(s, i, lit)
            /\ \A j \in 1..(i - 1) : ~StartsAt(s, j, lit)
    ELSE 0

\* the first index >= i whose character is outside set, Len(s)+1 if none
SpanWhile(s, i, set) ==
    MinOf({ j \in i..Len(s) : Ch(s, j) \notin set } \cup { Max(i, Len(s) + 1) })

\* the first index >= i whose character is in set, Len(s)+1 if none
SpanUntil(s, i, set) ==
    MinOf({ j \in i..Len(s) : Ch(s, j) \in set } \cup { Max(i, Len(s) + 1) })

\* the last index <= i whose character is outside set, 0 if none
SpanBack(s, i, set) ==
    MaxOf({ j \in 1..i : Ch(s, j) \notin set } \cup { Min(i, 0) })

lstrip(s, set) == From(s, SpanWhile(s, 1, set))
rstrip(s, set) == Upto(s, SpanBack(s, Len(s), set))
\* s.strip(chars)
strip_chars(s, set) == rstrip(lstrip(s, set), set)
\* s.strip()
strip(s) == strip_chars(s, Space)

ToLower(c) ==
    IF c \in Upper
    THEN Ch(LowerStr, CHOOSE i \in 1..Len(UpperStr) : Ch(UpperStr, i) = c)
    ELSE c
\* s.lower(), character by character: the halves of s, then their halves
RECURSIVE lower(_)
lower(s) ==
    IF s = "" THEN ""
    ELSE IF Len(s) = 1 THEN ToLower(s)
    ELSE lower(Upto(s, Len(s) \div 2)) \o lower(From(s, Len(s) \div 2 + 1))

\* re.sub(r'\W+', '', s)
RECURSIVE strip_nonword(_)
strip_nonword(s) ==
    IF s = "" THEN ""
    ELSE IF Len(s) = 1 THEN (IF s \in WordChar THEN s ELSE "")
    ELSE strip_nonword(Upto(s, Len(s) \div 2))
            \o strip_nonword(From(s, Len(s) \div 2 + 1))

\* s.split(): the maximal runs of non-blank characters
RECURSIVE split_ws(_)
split_ws(s) ==
    LET t == lstrip(s, Space)
        e == SpanUntil(t, 1, Space)
    IN  IF t = "" THEN << >>
        ELSE << Upto(t, e - 1) >> \o split_ws(From(t, e))

\* s.split(sep) for a one-character sep: empty pieces are kept
RECURSIVE split_on(_, _)
split_on(s, sep) ==
    LET e == SpanUntil(s, 1, {sep})
    IN  IF e > Len(s) THEN << s >>
        ELSE << Upto(s, e - 1) >> \o split_on(From(s, e + 1), sep)

\* s.split(sep, 1)
split_once(s, sep) ==
    LET e == SpanUntil(s, 1, {sep})
    IN  IF e > Len(s) THEN << s >>
        ELSE << Upto(s, e - 1), From(s, e + 1) >>

\* sep.join(words)
RECURSIVE join(_, _)
join(sep, words) ==
    IF words = << >> THEN ""
    ELSE IF Len(words) = 1 THEN words[1]
    ELSE words[1] \o sep \o join(sep, Tail(words))

-----------------------------------------------------------------------------
(* CitationManager: text normalisation, fingerprint, short title.          *)

\* the replacement template of line 137, r"\1\u2013\2": ten characters, the
\* raw string keeps the backslash of \u
DashTemplate == "\\1\\u2013\\2"

\* the escapes re accepts in a replacement template besides \g and digits
TemplateEscapes == {"a", "b", "f", "n", "r", "t", "v", "\\"}

\* re's parse of a replacement template, done by re.sub before it looks for
\* a match: a backslash before an ASCII letter that is no known escape, or
\* at the end of the template, is re.error("bad escape")
RECURSIVE template_bad_escape(_, _)
template_bad_escape(t, i) ==
    IF i > Len(t) THEN FALSE
    ELSE IF Ch(t, i) # "\\" THEN template_bad_escape(t, i + 1)
    ELSE IF i = Len(t) THEN TRUE
    ELSE IF Ch(t, i + 1) \in Letter \ (TemplateEscapes \cup {"g"}) THEN TRUE
    ELSE template_bad_escape(t, i + 2)

\* the text a template without bad escapes puts between group 1 and group 2
template_infix(t) ==
    IF StartsAt(t, 1, "\\1") /\ EndsBefore(t, Len(t) + 1, "\\2")
    THEN SubSeq(t, 3, Len(t) - 2)
    ELSE t

\* where r'(?<=[\s(,])p{1,2}\.\s*(?=\d)' matches at index i, the index after
\* the match; 0 where it does not match
page_prefix_end(s, i) ==
    LET p1 == IF StartsAt(s, i, "pp.") THEN i + 3
              ELSE IF StartsAt(s, i, "p.") THEN i + 2
              ELSE 0
        e == SpanWhile(s, p1, Space)
    IN  IF /\ i >= 2
           /\ Ch(s, i - 1) \in Space \cup {"(", ","}
           /\ p1 > 0
           /\ e <= Len(s)
           /\ Ch(s, e) \in Digit
        THEN e ELSE 0

\* re.sub(r'(?<=[\s(,])p{1,2}\.\s*(?=\d)', '', s), scanning from index i:
\* the text up to the next match is kept, the match is dropped
RECURSIVE sub_page_prefix(_, _)
sub_page_prefix(s, i) ==
    LET j == first_of({ k \in i..Len(s) : page_prefix_end(s, k) > 0 })
    IN  IF j = 0 THEN From(s, i)
        ELSE SubSeq(s, i, j - 1) \o sub_page_prefix(s, page_prefix_end(s, j))

\* the non-overlapping matches of r'(\d)-(\d)' replaced by digit, mid, digit
RECURSIVE sub_dash(_, _, _)
sub_dash(s, i, mid) ==
    LET j == first_of({ k \in i..(Len(s) - 2) :
                          /\ Ch(s, k) \in Digit
                          /\ Ch(s, k + 1) = "-"
                          /\ Ch(s, k + 2) \in Digit })
    IN  IF j = 0 THEN From(s, i)
        ELSE SubSeq(s, i, j - 1) \o Ch(s, j) \o mid \o Ch(s, j + 2)
                \o sub_dash(s, j + 3, mid)

\* re.sub(r'(\d)-(\d)', repl, s)
re_sub_dash(repl, s) ==
    IF template_bad_escape(repl, 1) THEN Raise("re.error")
    ELSE Ok(sub_dash(s, 1, template_infix(repl)))

\* CitationManager.clean_text_formatting
clean_text_formatting(text) ==
    LET t1 == sub_page_prefix(text, 1)
        t2 == re_sub_dash(DashTemplate, t1)
    IN  IF t2.raised THEN t2 ELSE Ok(strip(t2.val))

FingerprintTitleLen == 25

\* CitationManager.generate_fingerprint (lru_cache leaves the value alone)
generate_fingerprint(author, title) ==
    IF ~Truthy(title) THEN None
    ELSE LET auth_str == IF Truthy(author) THEN lower(strip_nonword(author.str))
                         ELSE "no_auth"
             norm == lower(strip_nonword(title.str))
             title_str == Upto(norm, Min(FingerprintTitleLen, Len(norm)))
         IN  Str(auth_str \o "_" \o title_str)

ShortTitleWords == 5

\* re.sub(r'^(The|A|An)\s+', '', s): alternatives in order, then \s+
strip_article(s) ==
    LET after(a) == IF StartsAt(s, 1, a) /\ Len(s) > Len(a) /\ Ch(s, Len(a) + 1) \in Space
                    THEN SpanWhile(s, Len(a) + 1, Space) ELSE 0
    IN  IF after("The") > 0 THEN From(s, after("The"))
        ELSE IF after("A") > 0 THEN From(s, after("A"))
        ELSE IF after("An") > 0 THEN From(s, after("An"))
        ELSE s

\* CitationManager.get_short_title
get_short_title(full_title) ==
    IF ~Truthy(full_title) THEN ""
    ELSE LET t == full_title.str
             short0 == IF Contains(t, ":") THEN split_on(t, ":")[1] ELSE t
             short == strip_article(short0)
             words == split_ws(short)
         IN  IF Len(words) > ShortTitleWords
             THEN join(" ", SubSeq(words, 1, ShortTitleWords))
             ELSE short

-----------------------------------------------------------------------------
(* CitationManager: the parsing cascade.  A position is the index of the   *)
(* next character to read; a pattern maps a set of positions where it may   *)
(* start to the set of positions where it may end.                          *)

Newline == {"\n"}

\* \s*
ws_star(s, P) == UNION { p..SpanWhile(s, p, Space) : p \in P }
\* \s+
ws_plus(s, P) == UNION { (p + 1)..SpanWhile(s, p, Space) : p \in P }
\* \d+
digits_plus(s, P) == UNION { (p + 1)..SpanWhile(s, p, Digit) : p \in P }
\* .+  (the dot stops at a line break)
dot_plus(s, P) == UNION { (p + 1)..SpanUntil(s, p, Newline) : p \in P }
\* a literal
lit(s, P, w) == { p + Len(w) : p \in { q \in P : StartsAt(s, q, w) } }
\* a literal under re.IGNORECASE
lit_ci(s, P, w) ==
    { p + Len(w) : p \in { q \in P : /\ q + Len(w) - 1 <= Len(s)
                                     /\ lower(SubSeq(s, q, q + Len(w) - 1)) = lower(w) } }
\* (w1|w2|...) under re.IGNORECASE
alt_ci(s, P, ws) == UNION { lit_ci(s, P, w) : w \in ws }
\* (?:,\s*(.+))?
opt_details(s, P) == P \cup dot_plus(s, ws_star(s, lit(s, P, ",")))

ArchivalUnits == {"Box", "Folder", "Tape", "Reel", "Carton"}
ArbitrationMedia == {"Video", "Videos", "Tape", "Tapes", "Transcript", "Transcripts"}

\* what follows the lazy (.+?) in each of the six patterns of parse_archival
archival_tail(k, s, P) ==
    CASE k = 1 -> digits_plus(s, ws_plus(s, alt_ci(s, ws_star(s, lit(s, ws_star(s, P), ",")), ArchivalUnits)))
      [] k = 2 -> opt_details(s, alt_ci(s, ws_plus(s, lit_ci(s, ws_plus(s, P), "Arbitration")), ArbitrationMedia))
      [] k = 3 -> dot_plus(s, ws_star(s, lit(s, ws_star(s, lit_ci(s, ws_plus(s, P), "Papers")), ",")))
      [] k = 4 -> dot_plus(s, ws_star(s, lit(s, ws_star(s, alt_ci(s, ws_plus(s, P), {"Archive", "Archives"})), ",")))
      [] k = 5 -> dot_plus(s, ws_star(s, lit(s, ws_star(s, lit_ci(s, ws_plus(s, P), "Collection")), ",")))
      [] k = 6 -> opt_details(s, lit_ci(s, ws_plus(s, lit_ci(s, ws_plus(s, P), "Personal")), "Archive"))

ArchivalPatterns == 6

\* the lengths (.+?) may take in re.match(patterns[k], s)
archival_heads(k, s) ==
    { n \in 1..(SpanUntil(s, 1, Newline) - 1) : archival_tail(k, s, {n + 1}) # {} }

\* re.match(patterns[k], s) for the lengths H of (.+?): group(1) is the
\* shortest head, group(0) runs to the farthest end the greedy tail reaches
archival_groups(k, s, H) ==
    IF H = {} THEN [matched |-> FALSE, g1 |-> "", g0 |-> ""]
    ELSE [matched |-> TRUE,
          g1 |-> Upto(s, MinOf(H)),
          g0 |-> Upto(s, MaxOf(archival_tail(k, s, {MinOf(H) + 1})) - 1)]

archival_match(k, s) == archival_groups(k, s, archival_heads(k, s))

Rec(type, author, title, pub, page, details, raw) ==
    [type |-> type, author |-> author, title |-> title, pub |-> pub,
     page |-> page, details |-> details, raw |-> raw]

\* a matcher's "return None"
NoMatch == Rec("", None, None, None, None, None, None)

RECURSIVE parse_archival_from(_, _)

\* the body of parse_archival's loop for pattern k and its match m
archival_record(k, text, m) ==
    IF ~m.matched THEN parse_archival_from(k + 1, text)
    ELSE IF Contains(text, "Arbitration")
    THEN Rec("archival", None, Str(split_on(m.g0, ",")[1]), None, None, Str(text), None)
    ELSE Rec("archival", None, Str(strip(m.g1)), None, None, Str(m.g0), None)

parse_archival_from(k, text) ==
    IF k > ArchivalPatterns THEN NoMatch
    ELSE archival_record(k, text, archival_match(k, text))

\* CitationManager.parse_archival: None, or the record without its page
parse_archival(text) == parse_archival_from(1, text)

\* parse_transcript once text.split(',') is known
transcript_record(parts) ==
    Rec("transcript", Str(strip(parts[1])), Str(strip(parts[1])),
        IF Len(parts) > 1 THEN Str(strip(parts[2])) ELSE None,
        None, None, None)

\* CitationManager.parse_transcript
parse_transcript(text) ==
    IF Contains(text, "Deposition") \/ Contains(text, "Testimony")
          \/ Contains(text, "Transcript")
    THEN transcript_record(split_on(text, ","))
    ELSE NoMatch

\* s[i-1:i]: the character at index i, "" outside the string
At(s, i) == IF i >= 1 /\ i <= Len(s) THEN Ch(s, i) ELSE ""

\* re.search(r'\s+v\.\s+', text)
legal_match(text) ==
    \E i \in 1..Len(text) :
        /\ Ch(text, i) \in Space
        /\ StartsAt(text, i + 1, "v.")
        /\ At(text, i + 3) \in Space

med_journals ==
    << "Am J Psychiatry", "American Journal of Psychiatry",
       "JAMA", "NEJM", "New England Journal of Medicine",
       "Arch Gen Psychiatry", "Archives of General Psychiatry",
       "Lancet", "BMJ", "British Medical Journal",
       "Psychiatric Services", "J Clin Psychiatry", "Journal of Clinical Psychiatry",
       "Biological Psychiatry", "Psychological Medicine",
       "Hospital and Community Psychiatry", "Bulletin of the Menninger Clinic",
       "J Nerv Ment Dis", "Journal of Nervous and Mental Disease" >>

SplitLookahead == Upper \cup {"\"", "'", LDQuote}


\* r'\.\s+(?=[A-Z"\'{])' matches at index i (the full stop)
author_split_at(s, i) ==
    /\ Ch(s, i) = "."
    /\ SpanWhile(s, i + 1, Space) > i + 1
    /\ At(s, SpanWhile(s, i + 1, Space)) \in SplitLookahead

\* the two pieces around the match at index i, the whole string when i = 0
split_at(s, i) ==
    IF i = 0 THEN << s >>
    ELSE << Upto(s, i - 1), From(s, SpanWhile(s, i + 1, Space)) >>

\* re.split(r'\.\s+(?=[A-Z"\'{])', s, 1)
split_author_title(s) ==
    split_at(s, first_of({ j \in 1..Len(s) : author_split_at(s, j) }))

\* r'\bet\s+al\.?' (IGNORECASE) at index i, the blanks ending before index a:
\* the index after the match, 0 where it does not match
et_al_close(s, i, a) ==
    IF /\ At(s, i - 1) \notin WordChar
       /\ i + 1 <= Len(s)
       /\ lower(SubSeq(s, i, i + 1)) = "et"
       /\ a > i + 2
       /\ a + 1 <= Len(s)
       /\ lower(SubSeq(s, a, a + 1)) = "al"
    THEN (IF At(s, a + 2) = "." THEN a + 3 ELSE a + 2)
    ELSE 0

et_al_end(s, i) == et_al_close(s, i, SpanWhile(s, i + 2, Space))

RECURSIVE sub_et_al(_, _)

\* one step of the substitution from index i, j the index of the next match
\* or 0: the text up to the match is kept, the match is replaced
et_al_step(s, i, j) ==
    IF j = 0 THEN From(s, i)
    ELSE SubSeq(s, i, j - 1) \o "et al." \o sub_et_al(s, et_al_end(s, j))

\* re.sub(r'\bet\s+al\.?', 'et al.', s, flags=re.IGNORECASE), from index i
sub_et_al(s, i) ==
    et_al_step(s, i, first_of({ k \in i..Len(s) : et_al_end(s, k) > 0 }))

\* "Last, First" -> "First Last", from name.split(',', 1)
reorder_parts(parts) == strip(parts[2]) \o " " \o strip(parts[1])
reorder_name(name) == reorder_parts(split_once(name, ","))

\* lines 222-224
reorder_unless_et_al(author) ==
    IF Contains(author, ",") /\ ~Contains(author, "et al.")
    THEN reorder_name(author) ELSE author

\* lines 217-224: an empty author is left alone
medical_author(author) ==
    IF author # "" THEN reorder_unless_et_al(sub_et_al(author, 1)) ELSE author

\* lines 213-231, parts the split of the text before the journal
medical_fields(journal, post_j, parts) ==
    Rec("medical",
        Str(medical_author(strip(parts[1]))),
        Str(IF Len(parts) > 1 THEN strip_chars(parts[2], {" ", "."}) ELSE "Title Unknown"),
        Str(journal \o " " \o strip(post_j)),
        None, None, None)

\* lines 208-211, at the index where journal first stands in text
medical_at(text, journal, at) ==
    medical_fields(journal, From(text, at + Len(journal)),
                   split_author_title(strip(Upto(text, at - 1))))

\* the body of parse_medical's loop for one journal found in text
medical_record(text, journal) == medical_at(text, journal, Find(text, journal))

\* the journals of the list found in text, J their indices
first_journal(text, J) ==
    IF J = {} THEN NoMatch ELSE medical_record(text, med_journals[MinOf(J)])

\* CitationManager.parse_medical: the first journal of the list found in text
parse_medical(text) ==
    first_journal(text, { k \in 1..Len(med_journals) : Contains(text, med_journals[k]) })

\* the page pattern r'[,.]\s*(\d+[-~]?\d*)\.?$' from index i, piece by piece:
\* \.?$ once the digits end before index d3
page_close(s, i, d0, d1, d3, d4) ==
    IF /\ Ch(s, i) \in {",", "."}
       /\ d1 > d0
       /\ \/ d4 = Len(s) + 1
          \/ d4 = Len(s) /\ Ch(s, d4) = "\n"
    THEN << d0, d3 - 1 >> ELSE << 0, 0 >>

page_second(s, i, d0, d1, d3) ==
    page_close(s, i, d0, d1, d3, IF At(s, d3) = "." THEN d3 + 1 ELSE d3)

\* [-~]?\d* once the first digits end before index d1
page_first(s, i, d0, d1) ==
    page_second(s, i, d0, d1,
                SpanWhile(s, IF At(s, d1) \in {"-", EnDash} THEN d1 + 1 ELSE d1, Digit))

\* \d+ once the blanks end before index d0
page_digits(s, i, d0) == page_first(s, i, d0, SpanWhile(s, d0, Digit))

\* the span of group 1 when the pattern matches from index i, else <<0, 0>>
page_span(s, i) == page_digits(s, i, SpanWhile(s, i + 1, Space))

\* re.search of the page pattern: the index where the leftmost match starts
page_match(s) == first_of({ i \in 1..Len(s) : page_span(s, i)[1] > 0 })

PubHead == Letter \cup Space \cup {"."}
PubStop == {",", "(", ")"}
YearDigits == 4

\* pub_pattern r'\(?([A-Za-z\s\.]+:\s*[^,()]+,\s*\d{4})\)?' from index i,
\* piece by piece: ,\s*\d{4} once [^,()]+ ends before index r
pub_year(s, g, c, r, d) ==
    IF /\ c > g
       /\ At(s, c) = ":"
       /\ r > c + 1
       /\ At(s, r) = ","
       /\ SpanWhile(s, d, Digit) >= d + YearDigits
    THEN << g, d + YearDigits - 1 >> ELSE << 0, 0 >>

pub_rest(s, g, c, r) == pub_year(s, g, c, r, SpanWhile(s, r + 1, Space))

\* :\s*[^,()]+ once [A-Za-z\s\.]+ ends before index c
pub_head(s, g, c) == pub_rest(s, g, c, SpanUntil(s, c + 1, PubStop))

\* group 1 starts at index g
pub_group(s, g) == pub_head(s, g, SpanWhile(s, g, PubHead))

\* the span of group 1 when the pattern matches from index i, else <<0, 0>>
pub_span(s, i) == pub_group(s, IF Ch(s, i) = "(" THEN i + 1 ELSE i)

\* re.search(pub_pattern, s): the index where the leftmost match starts
pub_match(s) == first_of({ i \in 1..Len(s) : pub_span(s, i)[1] > 0 })

NameChar == WordChar \cup {"-", "'"}
GivenChar == WordChar \cup {"-", "'", "."}
NameSuffixes == {"Jr.", "Sr.", "III"}

\* one character of a class
one_of(s, P, set) == { p + 1 : p \in { q \in P : At(s, q) \in set } }
\* a greedy run of a class that the pattern cannot give back
run_plus(s, P, set) ==
    { SpanWhile(s, p, set) : p \in { q \in P : SpanWhile(s, q, set) > q } }
\* (w1|w2|...)
alt(s, P, ws) == UNION { lit(s, P, w) : w \in ws }

\* (?:\s+[A-Z]\.)? after the given name
given_initial(s, G) == G \cup lit(s, one_of(s, ws_plus(s, G), Upper), ".")

\* author_pattern after the surname (and suffix): ,\s+[A-Z][\w\-\'\.]+(?:\s+[A-Z]\.)?
given_tail(s, P) ==
    given_initial(s, run_plus(s, one_of(s, ws_plus(s, lit(s, P, ",")), Upper), GivenChar))

\* the end the greedy match prefers: with the suffix when the rest still
\* matches after it
preferred_end(withSuffix, plain) ==
    IF withSuffix # {} THEN MaxOf(withSuffix)
    ELSE IF plain # {} THEN MaxOf(plain)
    ELSE 0

\* the surname [A-Z][\w\-\']+ ends before the indices P0
author_after_surname(s, P0) ==
    preferred_end(given_tail(s, alt(s, ws_plus(s, lit(s, P0, ",")), NameSuffixes)),
                  given_tail(s, P0))

\* re.match(author_pattern, s).end() + 1, or 0
author_match(s) == author_after_surname(s, run_plus(s, one_of(s, {1}, Upper), NameChar))

\* lines 287-292: no name at the start of pre_pub
book_by_sentence(raw, page, pub, pre_pub, parts) ==
    IF Len(parts) > 1
    THEN Rec("book", Str(strip(parts[1])), Str(strip(parts[2])), Str(pub), page,
             None, Str(raw))
    ELSE Rec("book", None, Str(pre_pub), Str(pub), page, None, Str(raw))

\* lines 281-293, e the end of auth_match or 0
book_split(raw, page, pub, pre_pub, e) ==
    IF e > 0
    THEN Rec("book", Str(reorder_name(Upto(pre_pub, e - 1))),
             Str(strip_chars(From(pre_pub, e), {".", ",", " "})),
             Str(pub), page, None, Str(raw))
    ELSE book_by_sentence(raw, page, pub, pre_pub, split_author_title(pre_pub))

\* lines 277-279
book_fields(raw, page, pub, pre_pub) ==
    book_split(raw, page, pub, pre_pub, author_match(pre_pub))

\* lines 273-275, span the span of pub_match.group(1)
book_pub(raw, text, page, at, span) ==
    book_fields(raw, page, SubSeq(text, span[1], span[2]),
                rstrip(strip(Upto(text, at - 1)), {".", ","}))

\* parse_citation, the book branch (lines 272-293), at = pub_match.start() + 1
book_record(raw, text, page, at) == book_pub(raw, text, page, at, pub_span(text, at))

\* lines 297-303
fallback_parts(raw, text, page, parts) ==
    IF Len(parts) > 1 /\ Contains(parts[1], ",")
    THEN Rec("journal", Str(reorder_name(parts[1])), Str(parts[2]), None, page,
             None, Str(raw))
    ELSE Rec("generic", None, Str(text), None, page, None, Str(raw))

\* parse_citation, the fallback (lines 295-305)
fallback_record(raw, text, page) ==
    fallback_parts(raw, text, page, split_author_title(text))

\* lines 268-305: a book when pub_pattern is found at index at, else the fallback
cascade_book(raw, text, page, at) ==
    IF at > 0 THEN book_record(raw, text, page, at) ELSE fallback_record(raw, text, page)

\* lines 263-266, med what parse_medical returned
cascade_medical(raw, text, page, med) ==
    IF med # NoMatch THEN [med EXCEPT !.page = page]
    ELSE cascade_book(raw, text, page, pub_match(text))

\* lines 254-261, trans what parse_transcript returned
cascade_transcript(raw, text, page, trans) ==
    IF trans # NoMatch THEN [trans EXCEPT !.page = page]
    ELSE IF legal_match(text) THEN Rec("legal", None, Str(text), None, page, None, None)
    ELSE cascade_medical(raw, text, page, parse_medical(text))

\* lines 249-252, arch what parse_archival returned
cascade_archival(raw, text, page, arch) ==
    IF arch # NoMatch THEN [arch EXCEPT !.page = page]
    ELSE cascade_transcript(raw, text, page, parse_transcript(text))

\* lines 248-305: the waterfall on the text left once the page is cut off
cascade(raw, text, page) == cascade_archival(raw, text, page, parse_archival(text))

\* the page group of a match
page_of(s, span) == Str(SubSeq(s, span[1], span[2]))

\* lines 243-246, pm = page_match.start() + 1 or 0
parse_paged(raw, cleaned, pm) ==
    IF pm > 0
    THEN cascade(raw, rstrip(strip(Upto(cleaned, pm - 1)), {".", ","}),
                 page_of(cleaned, page_span(cleaned, pm)))
    ELSE cascade(raw, cleaned, None)

\* parse_citation after line 240: raw is the argument, cleaned the value
\* clean_text_formatting returned
parse_cleaned(raw, cleaned) == parse_paged(raw, cleaned, page_match(cleaned))

\* line 240 and what follows it, c the outcome of clean_text_formatting
parse_after_clean(text, c) == IF c.raised THEN c ELSE Ok(parse_cleaned(text, c.val))

\* CitationManager.parse_citation
parse_citation(text) == parse_after_clean(text, clean_text_formatting(text))

-----------------------------------------------------------------------------
(* CitationManager.process: the Ibid / short-note / full-note engine.      *)

\* how an f-string renders an optional string
Fmt(o) == IF o.isNone THEN "None" ELSE o.str

\* CitationManager.__init__: the state one engine owns
NewCitationManager == [history |-> << >>, seen_works |-> << >>]

\* a history entry: the parsed record with parsed['fingerprint'] set
WithFingerprint(parsed, fp) ==
    [type |-> parsed.type, author |-> parsed.author, title |-> parsed.title,
     pub |-> parsed.pub, page |-> parsed.page, details |-> parsed.details,
     raw |-> parsed.raw, fingerprint |-> fp]

\* if parsed['page']: final_str += f", {parsed['page']}"
with_page(str, parsed) ==
    IF Truthy(parsed.page) THEN str \o ", " \o parsed.page.str ELSE str

\* branch A of process
ibid_note(parsed) == with_page("Ibid.", parsed)

\* lines 332-336, short_title = get_short_title(prev_data['title'])
short_with_author(parsed, short_title) ==
    IF Truthy(parsed.author) THEN parsed.author.str \o ", " \o short_title
    ELSE short_title

\* branch B of process; prev_data is seen_works[fingerprint]
short_note(parsed, prev_data) ==
    with_page(
        IF parsed.type = "legal" THEN split_on(parsed.title.str, ",")[1]
        ELSE IF parsed.type \in {"archival", "transcript"} THEN parsed.title.str
        ELSE short_with_author(parsed, get_short_title(prev_data.title)),
        parsed)

\* the body of a full note after its author segment
full_body(parsed, auth_str) ==
    IF parsed.type = "legal" THEN parsed.title.str
    ELSE IF parsed.type = "archival"
    THEN Fmt(parsed.title) \o ", " \o Fmt(parsed.details)
    ELSE IF parsed.type = "book" /\ Truthy(parsed.pub)
    THEN auth_str \o Fmt(parsed.title) \o " (" \o Fmt(parsed.pub) \o ")"
    ELSE IF parsed.type = "medical"
    THEN auth_str \o Fmt(parsed.title) \o " " \o Fmt(parsed.pub)
    ELSE auth_str \o Fmt(parsed.title)

\* branch C of process
full_note(parsed) ==
    with_page(full_body(parsed,
                        IF Truthy(parsed.author) THEN parsed.author.str \o ", " ELSE ""),
              parsed)

\* seen_works is a sequence of <<key, record>> pairs, one per key
SeenKeys(seen_works) == { seen_works[i][1] : i \in 1..Len(seen_works) }
SeenGet(seen_works, key) ==
    seen_works[CHOOSE i \in 1..Len(seen_works) : seen_works[i][1] = key][2]

\* lines 316-361 for a fingerprint; entry is parsed with its fingerprint, the
\* object both history and seen_works hold
choose_note(cm, parsed, fingerprint, entry) ==
    IF Len(cm.history) > 0 /\ cm.history[Len(cm.history)].fingerprint = fingerprint
    THEN [out |-> Ok(ibid_note(parsed)),
          cm |-> [cm EXCEPT !.history = Append(@, entry)]]
    ELSE IF fingerprint \in SeenKeys(cm.seen_works)
    THEN [out |-> Ok(short_note(parsed, SeenGet(cm.seen_works, fingerprint))),
          cm |-> [cm EXCEPT !.history = Append(@, entry)]]
    ELSE [out |-> Ok(full_note(parsed)),
          cm |-> [history |-> Append(cm.history, entry),
                  seen_works |-> Append(cm.seen_works, << fingerprint, entry >>)]]

note_for(cm, parsed, fingerprint) ==
    choose_note(cm, parsed, fingerprint, WithFingerprint(parsed, fingerprint))

\* process from line 313 on, for a record that takes part in the history
process_parsed(cm, parsed) ==
    note_for(cm, parsed, generate_fingerprint(parsed.author, parsed.title))

\* process after line 308, p the outcome of parse_citation
process_outcome(cm, raw_text, p) ==
    IF p.raised THEN [out |-> p, cm |-> cm]
    ELSE IF ~Truthy(p.val.title) /\ ~Truthy(p.val.author)
    THEN [out |-> clean_text_formatting(raw_text), cm |-> cm]
    ELSE process_parsed(cm, p.val)

\* CitationManager.process(raw_text) on the engine state cm: what the call
\* returns or raises, and the engine state it leaves
process(cm, raw_text) == process_outcome(cm, raw_text, parse_citation(raw_text))

-----------------------------------------------------------------------------
(* IncipitExtractor.                                                       *)

\* the negative lookbehinds of the sentence pattern, in source order
Abbreviations == <<"Dr", "Mr", "Ms", "Mrs", "Prof", "Rev", "Sen", "Rep", "v">>
SentenceEnd == {".", "?", "!"}

\* the sentence pattern matches at index i: every lookbehind is taken at the
\* position where \s+ starts, so (?<!Dr) reads the characters that end at
\* the punctuation mark itself; \s+ then takes the whole blank run
sentence_break(s, i) ==
    /\ \A k \in 1..Len(Abbreviations) : ~EndsBefore(s, i, Abbreviations[k])
    /\ i >= 2
    /\ Ch(s, i - 1) \in SentenceEnd
    /\ i <= Len(s)
    /\ Ch(s, i) \in Space
    /\ SpanWhile(s, i, Space) <= Len(s)
    /\ Ch(s, SpanWhile(s, i, Space)) \in Upper

\* the indices where re.split(pattern, s) cuts
sentence_breaks(s) == { i \in 1..Len(s) : sentence_break(s, i) }

\* re.split(pattern, s)[-1]
last_sentence(s) ==
    IF sentence_breaks(s) = {} THEN s
    ELSE LET i == CHOOSE b \in sentence_breaks(s) :
                      \A c \in sentence_breaks(s) : c <= b
         IN  From(s, SpanWhile(s, i, Space))

LeadingQuotes == {"\"", "'", LDQuote, LSQuote} \cup Space
TrailingPunct == {".", ",", ";", ":", "!", "?", "\"", "'", RDQuote, RSQuote}

\* the length of the Python slice x[:n] of a sequence of length len: a
\* negative n counts from the end
slice_end(len, n) == IF n >= 0 THEN Min(n, len) ELSE Max(len + n, 0)

\* IncipitExtractor.get_sentence_start, word_count = self.word_count
get_sentence_start(text, position, word_count) ==
    LET text_before == Upto(text, slice_end(Len(text), position))
        current == lstrip(strip(last_sentence(text_before)), LeadingQuotes)
        words == split_ws(current)
        n == slice_end(Len(words), word_count)
        selected == SubSeq(words, 1, n)
        trimmed == IF n = 0 THEN selected
                   ELSE [selected EXCEPT ![n] = rstrip(selected[n], TrailingPunct)]
    IN  IF text_before = "" THEN "" ELSE join(" ", trimmed)

-----------------------------------------------------------------------------
(* State.                                                                  *)

VARIABLES
    cm,           \* one CitationManager: [history, seen_works]
    calls,        \* the process calls made on cm: raw text, outcome, state left
    norm_in,      \* the argument of clean_text_formatting
    norm_out,     \* its outcome, once called
    fp_args,      \* two (author, title) pairs given to generate_fingerprint
    fp_keys,      \* the keys returned for them, once called
    fp_cache,     \* the lru_cache of generate_fingerprint, most recent last
    para,         \* extract_contexts: the runs of one paragraph
    para_i,       \* the loop index of line 400
    current_pos,  \* the offset summed at line 401
    contexts,     \* the contexts dict: <<id, text before, incipit>>
    word_count,   \* IncipitExtractor.word_count
    conv,         \* one process_document_xml call
    docs          \* two process_document_xml calls in one process, interleaved

vars == << cm, calls, norm_in, norm_out, fp_args, fp_keys, fp_cache,
           para, para_i, current_pos, contexts, word_count, conv, docs >>

engineVars == << cm, calls >>
normVars == << norm_in, norm_out >>
fpVars == << fp_args, fp_keys, fp_cache >>
incipitVars == << para, para_i, current_pos, contexts, word_count >>

NotCalled == [raised |-> FALSE, exc |-> "not called", val |-> ""]

EngineIdle == cm = NewCitationManager /\ calls = << >>
NormIdle == norm_in = "" /\ norm_out = NotCalled
FpIdle == fp_args = << >> /\ fp_keys = << >> /\ fp_cache = << >>
IncipitIdle ==
    /\ para = << >>
    /\ para_i = 1
    /\ current_pos = 0
    /\ contexts = << >>
    /\ word_count = 0

-----------------------------------------------------------------------------
(* The engine: any sequence of process calls on one CitationManager.       *)

FreudNote45 == "Freud, S. The Interpretation of Dreams. New York: Macmillan, 1913, 45."
FreudNote60 == "Freud, S. The Interpretation of Dreams. New York: Macmillan, 1913, 60."
LegalNote == "Roe v. Wade, 410 U.S. 113"
PageOnlyNote == ", 45."
RangeNote == "Doe, Jane. Reform, pp. 3-4"
\* two books whose text names an author and a publisher but no title
SmithNote == "Smith, John (Oxford: Clarendon, 1913)"
JonesNote == "Jones, Mary (Oxford: Clarendon, 1913)"

RawNotes ==
    {FreudNote45, FreudNote60, LegalNote, PageOnlyNote, RangeNote, SmithNote, JonesNote}

MaxCalls == 3

\* the call made, r what process returned and left
Called(raw_text, r) ==
    /\ cm' = r.cm
    /\ calls' = Append(calls, [raw |-> raw_text, out |-> r.out, cm |-> r.cm])

\* cit_manager.process(raw_text)
Process(raw_text) ==
    /\ Len(calls) < MaxCalls
    /\ Called(raw_text, process(cm, raw_text))

-----------------------------------------------------------------------------
(* clean_text_formatting as a function of its argument.                    *)

NormTokens == {" ", "p. ", "pp.", "12", "-", "7", "see", ",", "("}
MaxNormTokens == 3

RECURSIVE TokenStrings(_, _)
TokenStrings(tokens, n) ==
    IF n = 0 THEN {""}
    ELSE TokenStrings(tokens, n - 1)
            \cup { s \o t : s \in TokenStrings(tokens, n - 1), t \in tokens }

NormInputs == TokenStrings(NormTokens, MaxNormTokens)

Normalize ==
    /\ norm_out = NotCalled
    /\ norm_out' = clean_text_formatting(norm_in)
    /\ UNCHANGED norm_in

-----------------------------------------------------------------------------
(* generate_fingerprint behind its lru_cache.                              *)

FpAuthors == {None, Str(""), Str("a"), Str("a_b"), Str("S. Freud"), Str("s freud")}
FpTitles ==
    {None, Str(""), Str("c"), Str("b_c"),
     Str("The Interpretation of Dreams: A"), Str("The Interpretation of Dreams: B"),
     Str("the interpretation OF dreams")}
FpPairs == FpAuthors \X FpTitles

LruMaxSize == 512

CacheKeys(cache) == { cache[i][1] : i \in 1..Len(cache) }
CacheGet(cache, k) == cache[CHOOSE i \in 1..Len(cache) : cache[i][1] = k][2]
CacheWithout(cache, k) == SelectSeq(cache, LAMBDA e : e[1] # k)

\* the lru_cache wrapper: a hit returns the stored value and renews the
\* entry, a miss calls the function and stores its value, dropping the
\* least recently used entry beyond maxsize
cached_fingerprint(cache, args) ==
    IF args \in CacheKeys(cache)
    THEN [value |-> CacheGet(cache, args),
          cache |-> Append(CacheWithout(cache, args), << args, CacheGet(cache, args) >>)]
    ELSE LET v == generate_fingerprint(args[1], args[2])
             grown == Append(cache, << args, v >>)
         IN  [value |-> v,
              cache |-> IF Len(grown) > LruMaxSize THEN Tail(grown) ELSE grown]

MaxFpCalls == 3

\* self.generate_fingerprint(author, title) for the n-th pair
Fingerprint(n) ==
    /\ Len(fp_keys) < MaxFpCalls
    /\ n \in 1..Len(fp_args)
    /\ LET r == cached_fingerprint(fp_cache, fp_args[n])
       IN  /\ fp_keys' = Append(fp_keys, [n |-> n, key |-> r.value])
           /\ fp_cache' = r.cache
    /\ UNCHANGED fp_args

-----------------------------------------------------------------------------
(* IncipitExtractor.extract_contexts on one paragraph.                     *)

RunTexts == {"", "He met Dr. ", "Smith", "It ended. ", "See Roe v. ", "\"Then Mrs. Jones spoke, "}
RunIds == {None, Str("1")}
Runs == [text : RunTexts, id : RunIds]
MaxRuns == 3
\* /convert passes int(request.form.get('word_count', 3)) as it is
WordCounts == {-1, 1, 3}

RECURSIVE SeqsUpTo(_, _)
SeqsUpTo(S, n) ==
    IF n = 0 THEN {<< >>}
    ELSE SeqsUpTo(S, n - 1) \cup { Append(q, x) : q \in SeqsUpTo(S, n - 1), x \in S }

RECURSIVE ConcatTexts(_)
ConcatTexts(runs) ==
    IF runs = << >> THEN "" ELSE runs[1].text \o ConcatTexts(Tail(runs))

DictSet(dict, k, v) ==
    IF \E i \in 1..Len(dict) : dict[i][1] = k
    THEN [i \in 1..Len(dict) |-> IF dict[i][1] = k THEN << k, v >> ELSE dict[i]]
    ELSE Append(dict, << k, v >>)
DictKeys(dict) == { dict[i][1] : i \in 1..Len(dict) }
DictGet(dict, k) == dict[CHOOSE i \in 1..Len(dict) : dict[i][1] = k][2]

\* one iteration of the loop of lines 400-403
ExtractRun ==
    /\ para_i <= Len(para)
    /\ LET run == para[para_i]
           pos == current_pos + Len(run.text)
           full_para_text == ConcatTexts(para)
       IN  /\ current_pos' = pos
           /\ contexts' =
                IF Truthy(run.id)
                THEN DictSet(contexts, run.id.str,
                             [before |-> Upto(full_para_text, pos),
                              incipit |-> get_sentence_start(full_para_text, pos, word_count)])
                ELSE contexts
    /\ para_i' = para_i + 1
    /\ UNCHANGED << para, word_count >>

-----------------------------------------------------------------------------
(* process_document_xml.                                                   *)

\* the ids of w:endnoteReference and w:endnote elements
NoteIds == {"-1", "0", "1", "2", "10"}
Separators == {"0", "-1"}
MaxRefs == 3

\* the w:endnote elements: the runs of each note, ref marks a run that holds
\* w:endnoteRef
NoteRun(ref, text) == [ref |-> ref, text |-> text]
EndnoteRuns(e_id) ==
    CASE e_id = "1" -> << NoteRun(TRUE, ""), NoteRun(FALSE, "Freud, S. The Interpretation of Dreams. "),
                          NoteRun(FALSE, "New York: Macmillan, 1913, 45.") >>
      [] e_id = "2" -> << NoteRun(TRUE, ""), NoteRun(FALSE, LegalNote) >>
      [] e_id = "10" -> << NoteRun(TRUE, ""), NoteRun(FALSE, FreudNote45) >>
      [] OTHER -> << NoteRun(FALSE, "") >>

\* the contexts argument: no entry for note 10, an empty incipit for note 2
DocContexts == << <<"1", "He met Dr">>, <<"2", "">> >>

BookmarkBase == 10000

\* the arguments of one call: refs are the reference ids in document order,
\* missing the note ids endnotes.xml has no w:endnote for
DocInputs ==
    [refs : SeqsUpTo(NoteIds, MaxRefs), missing : {{}, {"2"}},
     format_bold : BOOLEAN, apply_cms : BOOLEAN, has_body : BOOLEAN]

NewConversion(input) ==
    [refs |-> input.refs, missing |-> input.missing, format_bold |-> input.format_bold,
     apply_cms |-> input.apply_cms, has_body |-> input.has_body,
     pc |-> "refs", i |-> 1, bm_count |-> BookmarkBase, ref_map |-> << >>,
     bookmarks |-> << >>, cit_manager |-> NewCitationManager, sorted_ids |-> << >>,
     j |-> 1, notes_container |-> << >>, calls |-> << >>, body |-> << >>,
     result |-> NotCalled]

\* x.isdigit()
isdigit(x) == x # "" /\ \A k \in 1..Len(x) : Ch(x, k) \in Digit

DigitValue(c) == (CHOOSE k \in 1..Len(DigitStr) : Ch(DigitStr, k) = c) - 1
\* int(x) for a string of digits
RECURSIVE int(_)
int(x) == IF x = "" THEN 0 ELSE 10 * int(Upto(x, Len(x) - 1)) + DigitValue(Ch(x, Len(x)))

\* line 453 with the key left out: every id sorts as 0
sort_key_unparsed(x) == 0

\* the key of line 453
sort_key(x) == IF isdigit(x) THEN int(x) ELSE 0

\* sorted(ids, key=sort_key): insert x after the elements whose key is not larger
RECURSIVE sorted(_)
sorted(ids) ==
    IF ids = << >> THEN << >>
    ELSE LET x == ids[Len(ids)]
             rest == sorted(SubSeq(ids, 1, Len(ids) - 1))
             k == Cardinality({ m \in 1..Len(rest) : sort_key(rest[m]) <= sort_key(x) })
         IN  SubSeq(rest, 1, k) \o << x >> \o SubSeq(rest, k + 1, Len(rest))

DictKeySeq(dict) == [m \in 1..Len(dict) |-> dict[m][1]]

\* lines 422-424: a reference to a separator note is skipped
skip_separator(c) == [c EXCEPT !.i = @ + 1]

\* lines 426-442: a bookmark pair around the reference, the marker removed
insert_bookmark(c) ==
    LET e_id == c.refs[c.i]
        b_name == "REF_NOTE_" \o e_id
        b_id == ToString(c.bm_count)
    IN  [c EXCEPT !.i = @ + 1,
                  !.bm_count = @ + 1,
                  !.ref_map = DictSet(@, e_id, b_name),
                  !.bookmarks = Append(@, [id |-> b_id, name |-> b_name, site |-> c.i])]

NoteBlock(kind, e_id, pageref, incipit, emphasis, runs) ==
    [kind |-> kind, id |-> e_id, pageref |-> pageref, incipit |-> incipit,
     emphasis |-> emphasis, runs |-> runs]

HeaderBlock == NoteBlock("header", "", "", None, "", << "Notes" >>)

\* lines 444-454
start_notes(c) ==
    [c EXCEPT !.pc = "notes",
              !.cit_manager = NewCitationManager,
              !.notes_container = << HeaderBlock >>,
              !.sorted_ids = sorted(DictKeySeq(c.ref_map))]

\* lines 457-458: no w:endnote with this id
skip_missing_note(c) == [c EXCEPT !.j = @ + 1]

\* the text of the runs of a note that hold no w:endnoteRef
RECURSIVE kept_runs(_)
kept_runs(runs) ==
    IF runs = << >> THEN << >>
    ELSE (IF runs[1].ref THEN << >> ELSE << runs[1].text >>) \o kept_runs(Tail(runs))

RECURSIVE concat(_)
concat(texts) == IF texts = << >> THEN "" ELSE texts[1] \o concat(Tail(texts))

\* lines 469-476: the incipit of a note and its w:b / w:i
note_incipit(e_id) ==
    IF e_id \in DictKeys(DocContexts) /\ DictGet(DocContexts, e_id) # ""
    THEN Str(DictGet(DocContexts, e_id)) ELSE None
note_emphasis(c, e_id) ==
    IF note_incipit(e_id).isNone THEN "" ELSE IF c.format_bold THEN "b" ELSE "i"

\* lines 460-476 and the runs that lines 478-498 add
note_block(c, e_id, kind, runs) ==
    NoteBlock(kind, e_id, DictGet(c.ref_map, e_id), note_incipit(e_id),
              note_emphasis(c, e_id), runs)

\* lines 487-494 without the try / except: what process raises ends the call
emit_processed_unguarded(c, e_id, original, raw_text, r) ==
    IF r.out.raised
    THEN [c EXCEPT !.pc = "done",
                   !.calls = Append(@, [id |-> e_id, raw |-> raw_text, out |-> r.out]),
                   !.result = r.out]
    ELSE [c EXCEPT !.j = @ + 1,
                   !.cit_manager = r.cm,
                   !.calls = Append(@, [id |-> e_id, raw |-> raw_text, out |-> r.out]),
                   !.notes_container =
                       Append(@, note_block(c, e_id, "formatted", << r.out.val >>))]

\* lines 487-494: r is what process returned or raised and the state it left
emit_processed(c, e_id, original, raw_text, r) ==
    [c EXCEPT !.j = @ + 1,
              !.cit_manager = r.cm,
              !.calls = Append(@, [id |-> e_id, raw |-> raw_text, out |-> r.out]),
              !.notes_container =
                  Append(@, IF r.out.raised
                            THEN note_block(c, e_id, "original", original)
                            ELSE note_block(c, e_id, "formatted", << r.out.val >>))]

\* lines 478-500, original the runs of the note without w:endnoteRef
emit_runs(c, e_id, original) ==
    IF c.apply_cms
    THEN emit_processed(c, e_id, original, concat(original),
                        process(c.cit_manager, concat(original)))
    ELSE [c EXCEPT !.j = @ + 1,
                   !.notes_container = Append(@, note_block(c, e_id, "original", original))]

\* lines 460-500: the block of one note
emit_note(c) ==
    emit_runs(c, c.sorted_ids[c.j], kept_runs(EndnoteRuns(c.sorted_ids[c.j])))

PageBreak == NoteBlock("break", "", "", None, "", << >>)

\* lines 502-508
finish(c) ==
    IF ~c.has_body
    THEN [c EXCEPT !.pc = "done", !.result = Ok(0)]
    ELSE [c EXCEPT !.pc = "done",
                   !.body = << PageBreak >> \o c.notes_container,
                   !.result = Ok(Len(c.sorted_ids))]

SkipSeparator ==
    /\ conv.pc = "refs"
    /\ conv.i <= Len(conv.refs)
    /\ conv.refs[conv.i] \in Separators
    /\ conv' = skip_separator(conv)
    /\ UNCHANGED << engineVars, normVars, fpVars, incipitVars, docs >>

InsertBookmark ==
    /\ conv.pc = "refs"
    /\ conv.i <= Len(conv.refs)
    /\ conv.refs[conv.i] \notin Separators
    /\ conv' = insert_bookmark(conv)
    /\ UNCHANGED << engineVars, normVars, fpVars, incipitVars, docs >>

StartNotes ==
    /\ conv.pc = "refs"
    /\ conv.i > Len(conv.refs)
    /\ conv' = start_notes(conv)
    /\ UNCHANGED << engineVars, normVars, fpVars, incipitVars, docs >>

SkipMissingNote ==
    /\ conv.pc = "notes"
    /\ conv.j <= Len(conv.sorted_ids)
    /\ conv.sorted_ids[conv.j] \in conv.missing
    /\ conv' = skip_missing_note(conv)
    /\ UNCHANGED << engineVars, normVars, fpVars, incipitVars, docs >>

EmitNote ==
    /\ conv.pc = "notes"
    /\ conv.j <= Len(conv.sorted_ids)
    /\ conv.sorted_ids[conv.j] \notin conv.missing
    /\ conv' = emit_note(conv)
    /\ UNCHANGED << engineVars, normVars, fpVars, incipitVars, docs >>

Finish ==
    /\ conv.pc = "notes"
    /\ conv.j > Len(conv.sorted_ids)
    /\ conv' = finish(conv)
    /\ UNCHANGED << engineVars, normVars, fpVars, incipitVars, docs >>

ConvIdle == conv = NewConversion([refs |-> << >>, missing |-> {}, format_bold |-> TRUE,
                                  apply_cms |-> TRUE, has_body |-> TRUE])

-----------------------------------------------------------------------------
(* Two conversions in one process: each call of process_document_xml has   *)
(* its own local variables; the objects it creates live on one heap, and   *)
(* the lru_cache of generate_fingerprint is one per process.               *)

TwoDocIds == {"0", "1", "2", "10"}
MaxDocRefs == 2

\* the arguments of the two calls: note 10 has no w:endnote element
TwoDocInputs ==
    [refs : SeqsUpTo(TwoDocIds, MaxDocRefs), missing : {{"10"}},
     format_bold : {TRUE}, apply_cms : {TRUE}, has_body : {TRUE}]

\* conv[d] are the locals of call d, mgr[d] the object its cit_manager names
\* (0 before line 444), heap the CitationManager objects, cache the lru_cache
NewDocs(input1, input2) ==
    [conv |-> << NewConversion(input1), NewConversion(input2) >>,
     mgr |-> << 0, 0 >>, heap |-> << >>, cache |-> << >>]

\* line 444 with one CitationManager made at import time and used by every call
shared_manager(heap) == 1

\* line 444: CitationManager() is a new object
new_manager(heap) == Len(heap) + 1

\* __init__ on the object self names
init_manager(heap, self) ==
    IF self > Len(heap) THEN Append(heap, NewCitationManager) ELSE heap

\* lines 422-424 in call d
doc_skip_separator(D, d) == [D EXCEPT !.conv[d] = skip_separator(@)]

\* lines 426-442 in call d
doc_insert_bookmark(D, d) == [D EXCEPT !.conv[d] = insert_bookmark(@)]

\* lines 444-454 in call d, self the object line 444 yields
doc_start_with(D, d, self) ==
    [D EXCEPT !.conv[d] = [start_notes(@) EXCEPT !.cit_manager = init_manager(D.heap, self)[self]],
              !.mgr[d] = self,
              !.heap = init_manager(@, self)]

doc_start_notes(D, d) == doc_start_with(D, d, new_manager(D.heap))

\* lines 457-458 in call d
doc_skip_missing_note(D, d) == [D EXCEPT !.conv[d] = skip_missing_note(@)]

\* line 313 behind the lru_cache, p what parse_citation returned or raised:
\* the key of a method's cache holds self
lookup_after_parse(cache, self, p) ==
    IF p.raised THEN cache
    ELSE IF ~Truthy(p.val.title) /\ ~Truthy(p.val.author) THEN cache
    ELSE cached_fingerprint(cache, << p.val.author, p.val.title, self >>).cache

\* the cache a process(raw_text) call on the object self leaves
cache_after_process(cache, self, raw_text) ==
    lookup_after_parse(cache, self, parse_citation(raw_text))

\* lines 460-500 in call d: c is what the iteration leaves of the locals,
\* with the state of the object in c.cit_manager
doc_emitted(D, d, c, raw_text) ==
    [D EXCEPT !.conv[d] = c,
              !.heap[D.mgr[d]] = c.cit_manager,
              !.cache = IF c.apply_cms
                        THEN cache_after_process(@, D.mgr[d], raw_text)
                        ELSE @]

\* the locals of call d, cit_manager read through the heap
doc_locals(D, d) == [D.conv[d] EXCEPT !.cit_manager = D.heap[D.mgr[d]]]

\* the text of the note the loop of call d stands at
doc_note_text(c) == concat(kept_runs(EndnoteRuns(c.sorted_ids[c.j])))

doc_emit_note(D, d) ==
    doc_emitted(D, d, emit_note(doc_locals(D, d)), doc_note_text(D.conv[d]))

\* lines 502-508 in call d
doc_finish(D, d) == [D EXCEPT !.conv[d] = finish(@)]

othersUnchanged == UNCHANGED << engineVars, normVars, fpVars, incipitVars, conv >>

DocSkipSeparator(d) ==
    /\ docs.conv[d].pc = "refs"
    /\ docs.conv[d].i <= Len(docs.conv[d].refs)
    /\ docs.conv[d].refs[docs.conv[d].i] \in Separators
    /\ docs' = doc_skip_separator(docs, d)
    /\ othersUnchanged

DocInsertBookmark(d) ==
    /\ docs.conv[d].pc = "refs"
    /\ docs.conv[d].i <= Len(docs.conv[d].refs)
    /\ docs.conv[d].refs[docs.conv[d].i] \notin Separators
    /\ docs' = doc_insert_bookmark(docs, d)
    /\ othersUnchanged

DocStartNotes(d) ==
    /\ docs.conv[d].pc = "refs"
    /\ docs.conv[d].i > Len(docs.conv[d].refs)
    /\ docs' = doc_start_notes(docs, d)
    /\ othersUnchanged

DocSkipMissingNote(d) ==
    /\ docs.conv[d].pc = "notes"
    /\ docs.conv[d].j <= Len(docs.conv[d].sorted_ids)
    /\ docs.conv[d].sorted_ids[docs.conv[d].j] \in docs.conv[d].missing
    /\ docs' = doc_skip_missing_note(docs, d)
    /\ othersUnchanged

DocEmitNote(d) ==
    /\ docs.conv[d].pc = "notes"
    /\ docs.conv[d].j <= Len(docs.conv[d].sorted_ids)
    /\ docs.conv[d].sorted_ids[docs.conv[d].j] \notin docs.conv[d].missing
    /\ docs' = doc_emit_note(docs, d)
    /\ othersUnchanged

DocFinish(d) ==
    /\ docs.conv[d].pc = "notes"
    /\ docs.conv[d].j > Len(docs.conv[d].sorted_ids)
    /\ docs' = doc_finish(docs, d)
    /\ othersUnchanged

NoInput == [refs |-> << >>, missing |-> {}, format_bold |-> TRUE,
            apply_cms |-> TRUE, has_body |-> TRUE]
DocsIdle == docs = NewDocs(NoInput, NoInput)

-----------------------------------------------------------------------------
(* Specifications.                                                         *)

\* process calls on one engine
Init ==
    /\ EngineIdle /\ NormIdle /\ FpIdle /\ IncipitIdle /\ ConvIdle /\ DocsIdle

Next ==
    \E raw_text \in RawNotes :
        Process(raw_text) /\ UNCHANGED << normVars, fpVars, incipitVars, conv, docs >>

Spec == Init /\ [][Next]_vars

\* clean_text_formatting on every input of NormInputs
InitNormalize ==
    /\ norm_in \in NormInputs
    /\ norm_out = NotCalled
    /\ EngineIdle /\ FpIdle /\ IncipitIdle /\ ConvIdle /\ DocsIdle

NextNormalize ==
    Normalize /\ UNCHANGED << engineVars, fpVars, incipitVars, conv, docs >>

SpecNormalize == InitNormalize /\ [][NextNormalize]_vars

\* generate_fingerprint on every two pairs of FpPairs
InitFingerprint ==
    /\ fp_args \in FpPairs \X FpPairs
    /\ fp_keys = << >>
    /\ fp_cache = << >>
    /\ EngineIdle /\ NormIdle /\ IncipitIdle /\ ConvIdle /\ DocsIdle

NextFingerprint ==
    \E n \in 1..2 :
        Fingerprint(n) /\ UNCHANGED << engineVars, normVars, incipitVars, conv, docs >>

SpecFingerprint == InitFingerprint /\ [][NextFingerprint]_vars

\* extract_contexts on every paragraph of up to MaxRuns runs
InitIncipit ==
    /\ para \in SeqsUpTo(Runs, MaxRuns)
    /\ word_count \in WordCounts
    /\ para_i = 1
    /\ current_pos = 0
    /\ contexts = << >>
    /\ EngineIdle /\ NormIdle /\ FpIdle /\ ConvIdle /\ DocsIdle

NextIncipit ==
    ExtractRun /\ UNCHANGED << engineVars, normVars, fpVars, conv, docs >>

SpecIncipit == InitIncipit /\ [][NextIncipit]_vars

\* one document conversion
InitDoc ==
    /\ \E input \in DocInputs : conv = NewConversion(input)
    /\ EngineIdle /\ NormIdle /\ FpIdle /\ IncipitIdle /\ DocsIdle

NextDoc ==
    \/ SkipSeparator
    \/ InsertBookmark
    \/ StartNotes
    \/ SkipMissingNote
    \/ EmitNote
    \/ Finish

SpecDoc == InitDoc /\ [][NextDoc]_vars

\* two document conversions, their steps interleaved in any order
InitTwoDocs ==
    /\ \E input1 \in TwoDocInputs : \E input2 \in TwoDocInputs :
          docs = NewDocs(input1, input2)
    /\ EngineIdle /\ NormIdle /\ FpIdle /\ IncipitIdle /\ ConvIdle

NextTwoDocs ==
    \/ \E d \in 1..2 : DocSkipSeparator(d)
    \/ \E d \in 1..2 : DocInsertBookmark(d)
    \/ \E d \in 1..2 : DocStartNotes(d)
    \/ \E d \in 1..2 : DocSkipMissingNote(d)
    \/ \E d \in 1..2 : DocEmitNote(d)
    \/ \E d \in 1..2 : DocFinish(d)

SpecTwoDocs == InitTwoDocs /\ [][NextTwoDocs]_vars

-----------------------------------------------------------------------------
(* Properties.                                                             *)

\* the string the specification gives for clean_text_formatting(text): the
\* page prefixes removed, digit-hyphen-digit joined by U+2013, trimmed
normalized(text) == strip(sub_dash(sub_page_prefix(text, 1), 1, EnDash))

\* the record parse_citation yields for a note whose text normalises so
citation(raw) == parse_cleaned(raw, normalized(raw))

\* the note takes part in the history: it has an author or a title
participates(raw) == Truthy(citation(raw).title) \/ Truthy(citation(raw).author)

fingerprint_of(raw) == generate_fingerprint(citation(raw).author, citation(raw).title)

\* the engine state call k found
state_before(k) == IF k = 1 THEN NewCitationManager ELSE calls[k - 1].cm

\* call k is the first call of the engine whose citation has its fingerprint
first_of_work(k) ==
    ~\E j \in 1..(k - 1) :
        /\ participates(calls[j].raw)
        /\ fingerprint_of(calls[j].raw) = fingerprint_of(calls[k].raw)

\* the first call whose citation has the fingerprint of call k
first_call_of_work(k) ==
    CHOOSE j \in 1..k :
        /\ participates(calls[j].raw)
        /\ fingerprint_of(calls[j].raw) = fingerprint_of(calls[k].raw)
        /\ first_of_work(j)

\* C1: Ibid rule.  Whenever two consecutive process calls of one engine are
\* given citations with the same fingerprint, the second call returns
\* exactly "Ibid." when no page was parsed and "Ibid., <page>" when one was.
C1_IbidRule ==
    \A k \in 1..(Len(calls) - 1) :
        ( /\ participates(calls[k].raw)
          /\ participates(calls[k + 1].raw)
          /\ fingerprint_of(calls[k].raw) = fingerprint_of(calls[k + 1].raw) )
        => calls[k + 1].out = Ok(ibid_note(citation(calls[k + 1].raw)))

\* C2: short-note rule.  Whenever calls k and m > k + 1 of one engine are
\* given citations with the same fingerprint and every call between them is
\* given a citation with another fingerprint, call m returns the short-note
\* form, which never is "Ibid." with or without a page.
C2_ShortNoteRule ==
    \A k \in 1..Len(calls) : \A m \in (k + 2)..Len(calls) :
        ( /\ participates(calls[k].raw)
          /\ participates(calls[m].raw)
          /\ fingerprint_of(calls[k].raw) = fingerprint_of(calls[m].raw)
          /\ \A x \in (k + 1)..(m - 1) :
                /\ participates(calls[x].raw)
                /\ fingerprint_of(calls[x].raw) # fingerprint_of(calls[m].raw) )
        => /\ ~calls[m].out.raised
           /\ calls[m].out.val =
                short_note(citation(calls[m].raw),
                           citation(calls[first_call_of_work(m)].raw))
           /\ ~StartsAt(calls[m].out.val, 1, "Ibid.")

\* C3: full-note rule and write-once map.  A call given a citation that takes
\* part in the history returns the full-note form exactly when it is the first
\* such call with that fingerprint; that call, and no other, stores the record
\* in seen_works under the fingerprint, and every later call leaves the entry
\* as it was stored.
C3_FullNoteWriteOnce ==
    \A k \in 1..Len(calls) :
        participates(calls[k].raw) =>
            /\ (calls[k].out = Ok(full_note(citation(calls[k].raw))))
                    <=> first_of_work(k)
            /\ first_of_work(k) =>
                /\ fingerprint_of(calls[k].raw) \notin SeenKeys(state_before(k).seen_works)
                /\ fingerprint_of(calls[k].raw) \in SeenKeys(calls[k].cm.seen_works)
                /\ \A m \in k..Len(calls) :
                      /\ fingerprint_of(calls[k].raw) \in SeenKeys(calls[m].cm.seen_works)
                      /\ SeenGet(calls[m].cm.seen_works, fingerprint_of(calls[k].raw))
                            = SeenGet(calls[k].cm.seen_works, fingerprint_of(calls[k].raw))
            /\ ~first_of_work(k) => calls[k].cm.seen_works = state_before(k).seen_works

\* C4: pass-through.  A call given a note whose record has neither author nor
\* title returns the normalised raw text and leaves history and seen_works
\* exactly as it found them.
C4_PassThroughFrame ==
    \A k \in 1..Len(calls) :
        ~participates(calls[k].raw) =>
            /\ calls[k].out = Ok(normalized(calls[k].raw))
            /\ calls[k].cm = state_before(k)

\* C5: the book scenario.  The Freud note parses to a book by "S. Freud" with
\* title "The Interpretation of Dreams", publication "New York: Macmillan,
\* 1913" and page "45", and the first call of a fresh engine given that note
\* returns "S. Freud, The Interpretation of Dreams (New York: Macmillan,
\* 1913), 45".
C5_FreudFullNote ==
    (Len(calls) >= 1 /\ calls[1].raw = FreudNote45) =>
        /\ citation(FreudNote45) =
              Rec("book", Str("S. Freud"), Str("The Interpretation of Dreams"),
                  Str("New York: Macmillan, 1913"), Str("45"), None, Str(FreudNote45))
        /\ calls[1].out =
              Ok("S. Freud, The Interpretation of Dreams (New York: Macmillan, 1913), 45")

\* the punctuation mark before index i follows one of the abbreviations
after_abbreviation(s, i) ==
    \E k \in 1..Len(Abbreviations) : EndsBefore(s, i - 1, Abbreviations[k])

\* C6: sentence-boundary exception.  For every reference of a paragraph,
\* get_sentence_start splits the text before the reference at no '.', '?' or
\* '!' that one of Dr, Mr, Ms, Mrs, Prof, Rev, Sen, Rep, v immediately
\* precedes; for "He met Dr. Smith" the incipit does not start at "Smith".
C6_NoBreakAfterAbbreviation ==
    \A n \in 1..Len(contexts) :
        /\ \A b \in sentence_breaks(contexts[n][2].before) :
              ~after_abbreviation(contexts[n][2].before, b)
        /\ contexts[n][2].before = "He met Dr. Smith" => contexts[n][2].incipit # "Smith"

\* C7: normalisation is total.  For every input clean_text_formatting returns
\* without raising, and returns the input with every digit-hyphen-digit
\* joined by U+2013 instead, the page prefixes removed and the ends trimmed.
C7_NormalizeTotal ==
    norm_out # NotCalled =>
        /\ ~norm_out.raised
        /\ norm_out.val = normalized(norm_in)

\* the two parts of a key as the specification names them
normalized_author(author) ==
    IF Truthy(author) THEN lower(strip_nonword(author.str)) ELSE "no_auth"
normalized_title(title) ==
    Upto(lower(strip_nonword(title.str)),
         Min(FingerprintTitleLen, Len(lower(strip_nonword(title.str)))))

\* C8: fingerprint distinctness.  generate_fingerprint returns the same key
\* for the same pair, and for two pairs with non-empty titles it returns
\* different keys whenever the normalised authors or the first 25 normalised
\* title characters differ, and the same key when both agree.
C8_FingerprintDistinct ==
    \A i \in 1..Len(fp_keys) : \A j \in 1..Len(fp_keys) :
        /\ fp_keys[i].n = fp_keys[j].n => fp_keys[i].key = fp_keys[j].key
        /\ ( /\ Truthy(fp_args[fp_keys[i].n][2])
             /\ Truthy(fp_args[fp_keys[j].n][2]) )
           => ( (fp_keys[i].key = fp_keys[j].key)
                <=> ( /\ normalized_author(fp_args[fp_keys[i].n][1])
                            = normalized_author(fp_args[fp_keys[j].n][1])
                      /\ normalized_title(fp_args[fp_keys[i].n][2])
                            = normalized_title(fp_args[fp_keys[j].n][2]) ) )

\* the blocks of the notes section after its header
note_blocks == Tail(conv.notes_container)

\* the notes of the document that have a w:endnote element
present_ids == DictKeys(conv.ref_map) \ conv.missing

\* C9: per-note failure recovery.  In a conversion with citation formatting
\* enabled, a note whose formatting raises still gets its block, with the
\* original runs of the note; every note after it is still processed and
\* gets its block; and the conversion returns without raising.
C9_FailureRecovery ==
    (conv.apply_cms /\ conv.pc = "done") =>
        /\ ~conv.result.raised
        /\ { conv.calls[n].id : n \in 1..Len(conv.calls) } = present_ids
        /\ Len(note_blocks) = Len(conv.calls)
        /\ \A n \in 1..Len(conv.calls) :
              /\ note_blocks[n].id = conv.calls[n].id
              /\ conv.calls[n].out.raised =>
                    /\ note_blocks[n].kind = "original"
                    /\ note_blocks[n].runs = kept_runs(EndnoteRuns(conv.calls[n].id))

\* two notes failed, both blocks are there and the conversion returned
C9_Witness ==
    /\ conv.apply_cms
    /\ conv.pc = "done"
    /\ ~conv.result.raised
    /\ Len(conv.calls) >= 2
    /\ \A n \in 1..Len(conv.calls) : conv.calls[n].out.raised
    /\ Len(note_blocks) = Len(conv.calls)
    /\ \A n \in 1..Len(note_blocks) :
          /\ note_blocks[n].kind = "original"
          /\ note_blocks[n].runs = kept_runs(EndnoteRuns(conv.calls[n].id))

\* ids in ascending numeric order, none twice, none a separator
ascending(ids) ==
    /\ \A n \in 1..Len(ids) : ids[n] \notin Separators /\ isdigit(ids[n])
    /\ \A a \in 1..Len(ids) : \A b \in (a + 1)..Len(ids) : int(ids[a]) < int(ids[b])

\* C10: processing order.  In one conversion process is called at most once
\* per note id and in strictly ascending numeric order of the ids, and the
\* notes section lists the blocks in the same ascending order, without the
\* ids "0" and "-1", whatever the order of the references in the document.
C10_ProcessingOrder ==
    /\ ascending([n \in 1..Len(conv.calls) |-> conv.calls[n].id])
    /\ conv.pc \in {"notes", "done"} =>
          /\ ascending([n \in 1..Len(note_blocks) |-> note_blocks[n].id])
          /\ conv.apply_cms =>
                [n \in 1..Len(conv.calls) |-> conv.calls[n].id]
                    = [n \in 1..Len(note_blocks) |-> note_blocks[n].id]
    /\ conv.pc = "done" =>
          { note_blocks[n].id : n \in 1..Len(note_blocks) } = present_ids

\* references in descending order with a separator between them: the calls
\* and the blocks in ascending order, the separator left out
C10_Witness ==
    /\ conv.pc = "done"
    /\ conv.apply_cms
    /\ conv.refs = << "10", "0", "2" >>
    /\ [n \in 1..Len(conv.calls) |-> conv.calls[n].id] = << "2", "10" >>
    /\ [n \in 1..Len(note_blocks) |-> note_blocks[n].id] = << "2", "10" >>

\* the next step of one conversion run by itself
step_alone(c) ==
    IF c.pc = "refs"
    THEN IF c.i > Len(c.refs) THEN start_notes(c)
         ELSE IF c.refs[c.i] \in Separators THEN skip_separator(c)
         ELSE insert_bookmark(c)
    ELSE IF c.j > Len(c.sorted_ids) THEN finish(c)
    ELSE IF c.sorted_ids[c.j] \in c.missing THEN skip_missing_note(c)
    ELSE emit_note(c)

\* what a conversion leaves when no other conversion runs
RECURSIVE converted_alone(_)
converted_alone(c) == IF c.pc = "done" THEN c ELSE converted_alone(step_alone(c))

\* the conversion of the arguments of call d, run by itself
alone(d) ==
    converted_alone(NewConversion(
        [refs |-> docs.conv[d].refs, missing |-> docs.conv[d].missing,
         format_bold |-> docs.conv[d].format_bold, apply_cms |-> docs.conv[d].apply_cms,
         has_body |-> docs.conv[d].has_body]))

\* C11: per-document isolation.  However the steps of two conversions are
\* interleaved, the two never use the same CitationManager object, the
\* history and seen_works of each are what its own calls left, the calls, the
\* outcomes and the note blocks of each conversion are those of the same
\* conversion run alone, and every entry of the shared fingerprint cache
\* holds the key generate_fingerprint computes for its arguments.
C11_DocumentIsolation ==
    /\ (docs.mgr[1] # 0 /\ docs.mgr[2] # 0) => docs.mgr[1] # docs.mgr[2]
    /\ \A d \in 1..2 :
          /\ docs.mgr[d] # 0 => docs.heap[docs.mgr[d]] = docs.conv[d].cit_manager
          /\ docs.conv[d].pc = "done" =>
                /\ docs.conv[d].calls = alone(d).calls
                /\ docs.conv[d].notes_container = alone(d).notes_container
                /\ docs.conv[d].body = alone(d).body
                /\ docs.conv[d].result = alone(d).result
    /\ \A n \in 1..Len(docs.cache) :
          docs.cache[n][2] = generate_fingerprint(docs.cache[n][1][1], docs.cache[n][1][2])

\* both conversions are done, each after two process calls that raised and
\* two note blocks, the second call having made its CitationManager first
C11_Witness ==
    /\ \A d \in 1..2 :
          /\ docs.conv[d].pc = "done"
          /\ Len(docs.conv[d].calls) = 2
          /\ Len(docs.conv[d].notes_container) = 3
    /\ docs.conv[1].refs = << "2", "1" >>
    /\ docs.conv[2].refs = << "1", "2" >>
    /\ docs.mgr = << 2, 1 >>

\* C12: bookmark uniqueness.  In one conversion the bookmarks inserted at two
\* different reference sites differ in id and differ in name, and the
\* PAGEREF field of every note block names a bookmark inserted at a
\* reference to that note.
C12_BookmarkUniqueness ==
    /\ \A a \in 1..Len(conv.bookmarks) : \A b \in 1..Len(conv.bookmarks) :
          a # b =>
              /\ conv.bookmarks[a].id # conv.bookmarks[b].id
              /\ conv.bookmarks[a].name # conv.bookmarks[b].name
    /\ conv.pc \in {"notes", "done"} =>
          \A n \in 1..Len(note_blocks) :
              \E a \in 1..Len(conv.bookmarks) :
                  /\ conv.bookmarks[a].name = note_blocks[n].pageref
                  /\ conv.refs[conv.bookmarks[a].site] = note_blocks[n].id

\* the record names an author and no title
untitled(c) == Truthy(c.author) /\ ~Truthy(c.title)

\* out is neither the Ibid. form nor the short-note form of the record c on
\* account of the earlier record prev, where prev has another author and no
\* title
no_null_match(out, c, prev) ==
    (untitled(prev) /\ prev.author # c.author) =>
        /\ out # Ok(ibid_note(c))
        /\ out # Ok(short_note(c, prev))

\* the same for a call, c the record of its note, and every call before it
call_matches_no_null(k, c) ==
    untitled(c) =>
        \A j \in 1..(k - 1) : no_null_match(calls[k].out, c, citation(calls[j].raw))

\* C13: no matching on a null key.  After any sequence of process calls every
\* entry of history has a fingerprint that is not None, no key of seen_works
\* is None, and the call just made, given a note with an author and no title,
\* did not return the Ibid. form or the short-note form on account of an
\* earlier note that has another author and no title either.
C13_NoNullKey ==
    /\ \A n \in 1..Len(cm.history) : ~cm.history[n].fingerprint.isNone
    /\ \A key \in SeenKeys(cm.seen_works) : ~key.isNone
    /\ Len(calls) > 0 =>
          call_matches_no_null(Len(calls), citation(calls[Len(calls)].raw))

=============================================================================
